---- MODULE Spec2Model ----
(***************************************************************************)
(* Model of src/main.py: a Streamlit chat client.  Every user interaction  *)
(* reruns main(); the chat history lives in st.session_state.messages and  *)
(* the sidebar widgets (API key field, file uploader) keep their values    *)
(* from one script run to the next.  A turn is: append the user message,   *)
(* prepare_messages (with convert_image_to_base64 for an image upload),    *)
(* stream_response, append the reply.                                      *)
(*                                                                         *)
(* Python values are modelled by records of uniform shape:                 *)
(*   message dict      [role, content]                                     *)
(*   content           [kind |-> "str", str, blocks |-> <<>>]  (a str)     *)
(*                     [kind |-> "list", str |-> "", blocks]   (a list)    *)
(*   content block     [type, text, media_type, data]                      *)
(*   base64 string     [format, length]   (codec of the bytes, # of chars) *)
(*   None              NoneData / NoFile / NoneReply                       *)
(* Object identity matters in prepare_messages (a dict appended by         *)
(* reference is the history's own dict): every entry of the prepared list  *)
(* carries alias = 0 for a fresh dict, or alias = i when it IS the dict    *)
(* object messages[i].                                                     *)
(***************************************************************************)
EXTENDS Integers, Sequences, FiniteSets, TLC

VARIABLES
    api_key,         \* value of the sidebar text_input (line 164)
    uploaded_file,   \* value of the file_uploader widget (line 168)
    messages,        \* st.session_state.messages
    event,           \* the interaction that triggered the latest script run
    notices,         \* st.warning / st.error elements drawn by the current run
    pc,              \* position of the current run of main()
    before,          \* the history as it was when prepare_messages was called
    prepared,        \* prepared_messages inside prepare_messages
    img_format,      \* convert_image_to_base64: img_format
    image,           \* convert_image_to_base64: image (its width and height)
    quality,         \* convert_image_to_base64: quality
    max_size_bytes,  \* convert_image_to_base64: max_size_bytes
    image_data,      \* the value convert_image_to_base64 returned
    request,         \* the messages this run passed to client.messages.create
    carried          \* the last request carried a file and nothing was uploaded since

vars == <<api_key, uploaded_file, messages, event, notices, pc, before, prepared,
          img_format, image, quality, max_size_bytes, image_data, request, carried>>

----------------------------------------------------------------------------
(* Bounds of the model *)

\* prompts are accepted while the history is shorter than this
MaxHistory == 3
\* largest width/height of an uploaded image, in pixels
MaxDim == 250
\* convert_image_to_base64 is explored for max_size_mb in 0..MaxMb
MaxMb == 6
\* encoder output sizes are drawn within this distance of the budget's edge
SizeSlack == 2

(* Program constants *)

DefaultMaxSizeMb == 5
InitialQuality == 90
QualityStep == 10
min_quality == 20
min_dimension == 200
MiB == 1048576

Prompts == {"p1", "p2"}
Replies == {"r1"}
Keys == {"", "sk"}

----------------------------------------------------------------------------
(* Values *)

NoneData == [format |-> "none", length |-> 0]
NoFile == [type |-> "none", format |-> "none", width |-> 0, height |-> 0, readable |-> FALSE]
NoImage == [width |-> 0, height |-> 0]
NoneReply == [isNone |-> TRUE, text |-> ""]

Str(s) == [kind |-> "str", str |-> s, blocks |-> <<>>]
BlockList(bs) == [kind |-> "list", str |-> "", blocks |-> bs]
TextBlock(c) == [type |-> "text", text |-> c, media_type |-> "", data |-> NoneData]
ImageBlock(mime, data) == [type |-> "image", text |-> Str(""), media_type |-> mime, data |-> data]
Message(r, c) == [role |-> r, content |-> c]

ExcelMimes == {"application/vnd.ms-excel",
               "application/vnd.openxmlformats-officedocument.spreadsheetml.sheet"}
ImageFormats == {"JPEG", "PNG", "WEBP"}

\* the MIME type the upload widget reports for a file of each accepted type
MimeOf(fmt) ==
    CASE fmt = "JPEG" -> "image/jpeg"
      [] fmt = "PNG" -> "image/png"
      [] fmt = "WEBP" -> "image/webp"

IsImageMime(mime) == mime \in {"image/jpeg", "image/png", "image/webp"}

Dims == {MaxDim - 28, MaxDim}

\* what the uploader can hold: an image of an accepted type (readable by PIL or
\* not), or an .xlsx file (parsable or not)
ImageFiles ==
    {[type |-> MimeOf(f), format |-> f, width |-> w, height |-> h, readable |-> TRUE] :
        f \in ImageFormats, w \in Dims, h \in Dims}
    \cup {[type |-> "image/png", format |-> "PNG", width |-> MaxDim, height |-> MaxDim,
           readable |-> FALSE]}
ExcelFiles ==
    {[type |-> "application/vnd.openxmlformats-officedocument.spreadsheetml.sheet",
      format |-> "xlsx", width |-> 0, height |-> 0, readable |-> r] : r \in BOOLEAN}
Files == ImageFiles \cup ExcelFiles

\* df.to_string(index=False) wrapped in a fence (line 149)
FencedTable == Str("fence:table:fence")

----------------------------------------------------------------------------
(* convert_image_to_base64 (lines 57-101) *)

JpegFormats == {"JPEG", "JPG"}

\* line 59
MaxSizeBytes(max_size_mb) == max_size_mb * MiB

\* lines 73-80: the codec image.save is called with
SaveFormat(fmt) ==
    IF fmt \in JpegFormats THEN "JPEG"
    ELSE IF fmt = "PNG" THEN "PNG" ELSE "JPEG"

FitsBudget_NoInflation(n, max) == n <= max
\* line 82: (img_bytes.tell() * 4 / 3) <= max_size_bytes.  n * 4 is exact, the
\* division is one correctly rounded float division and max is an integer far
\* below 2^53, so the test is the rational comparison 4n/3 <= max.
FitsBudget(n, max) == n * 4 <= max * 3

CanLowerQuality_AtFloor(fmt, q) == fmt \in JpegFormats /\ q >= min_quality
\* line 85
CanLowerQuality(fmt, q) == fmt \in JpegFormats /\ q > min_quality

\* lines 88-89: int(x * 0.9).  The float product of an integer below 2^31 and
\* 0.9 truncates to floor(9x/10).
Shrink(x) == (x * 9) \div 10

\* line 91
BelowFloor(w, h) == w < min_dimension \/ h < min_dimension

\* line 97: base64.b64encode of n bytes gives 4 * ceil(n / 3) characters
B64Len(n) == 4 * ((n + 2) \div 3)
B64Encode(fmt, n) == [format |-> fmt, length |-> B64Len(n)]

\* the sizes img_bytes.tell() is drawn from: one byte, and every size within
\* SizeSlack of the largest size that passes the budget test (so all residues
\* modulo 3 occur on both sides of the edge)
EncodedSizes(max) ==
    {1} \cup {n \in ((max * 3) \div 4 - SizeSlack)..((max * 3) \div 4 + SizeSlack) : n >= 1}

\* one pass of the loop ending at the break of line 83, then line 97
ConvertFit ==
    /\ pc = "convert"
    /\ \E n \in EncodedSizes(max_size_bytes) :
         /\ FitsBudget(n, max_size_bytes)
         /\ image_data' = B64Encode(SaveFormat(img_format), n)
    /\ pc' = "converted"
    /\ UNCHANGED <<api_key, uploaded_file, messages, event, notices, before, prepared,
                   img_format, image, quality, max_size_bytes, request, carried>>

\* one pass over budget, lines 85-86
ConvertLowerQuality ==
    /\ pc = "convert"
    /\ \E n \in EncodedSizes(max_size_bytes) : ~FitsBudget(n, max_size_bytes)
    /\ CanLowerQuality(img_format, quality)
    /\ quality' = quality - QualityStep
    /\ UNCHANGED <<api_key, uploaded_file, messages, event, notices, pc, before, prepared,
                   img_format, image, max_size_bytes, image_data, request, carried>>

\* one pass over budget, lines 87-95 with the resize
ConvertShrink ==
    /\ pc = "convert"
    /\ \E n \in EncodedSizes(max_size_bytes) : ~FitsBudget(n, max_size_bytes)
    /\ ~CanLowerQuality(img_format, quality)
    /\ ~BelowFloor(Shrink(image.width), Shrink(image.height))
    /\ image' = [width |-> Shrink(image.width), height |-> Shrink(image.height)]
    /\ UNCHANGED <<api_key, uploaded_file, messages, event, notices, pc, before, prepared,
                   img_format, quality, max_size_bytes, image_data, request, carried>>

\* one pass over budget, lines 87-93: the warning and return None
ConvertGiveUp ==
    /\ pc = "convert"
    /\ \E n \in EncodedSizes(max_size_bytes) : ~FitsBudget(n, max_size_bytes)
    /\ ~CanLowerQuality(img_format, quality)
    /\ BelowFloor(Shrink(image.width), Shrink(image.height))
    /\ image_data' = NoneData
    /\ notices' = notices \cup {"warn_compress"}
    /\ pc' = "converted"
    /\ UNCHANGED <<api_key, uploaded_file, messages, event, before, prepared,
                   img_format, image, quality, max_size_bytes, request, carried>>

\* a call inside the loop raises (save, convert, resize), lines 99-101
ConvertRaise ==
    /\ pc = "convert"
    /\ image_data' = NoneData
    /\ notices' = notices \cup {"err_image"}
    /\ pc' = "converted"
    /\ UNCHANGED <<api_key, uploaded_file, messages, event, before, prepared,
                   img_format, image, quality, max_size_bytes, request, carried>>

ConvertStep ==
    \/ ConvertFit
    \/ ConvertLowerQuality
    \/ ConvertShrink
    \/ ConvertGiveUp
    \/ ConvertRaise

\* convert_image_to_base64 on its own: every readable image, every max_size_mb
InitNormalizer ==
    /\ api_key = "sk"
    /\ \E f \in {x \in ImageFiles : x.readable} :
         /\ uploaded_file = f
         /\ img_format = f.format
         /\ image = [width |-> f.width, height |-> f.height]
    /\ \E mb \in 0..MaxMb : max_size_bytes = MaxSizeBytes(mb)
    /\ quality = InitialQuality
    /\ messages = <<>>
    /\ event = "none"
    /\ notices = {}
    /\ pc = "convert"
    /\ before = <<>>
    /\ prepared = <<>>
    /\ image_data = NoneData
    /\ request = <<>>
    /\ carried = FALSE

NextNormalizer == ConvertStep

SpecNormalizer == InitNormalizer /\ [][NextNormalizer]_vars

\* the loop is straight-line code: a pass that can run does run
FairNormalizer == SpecNormalizer /\ WF_vars(NextNormalizer)

----------------------------------------------------------------------------
(* prepare_messages (lines 104-154) *)

CopyEntry_ByReference(msg, i) ==
    [role |-> msg.role, content |-> msg.content, alias |-> i]
\* lines 109-113: a user message becomes a fresh dict holding the same content,
\* any other message is appended as the history's own dict object
CopyEntry(msg, i) ==
    IF msg.role = "user"
    THEN [role |-> msg.role, content |-> msg.content, alias |-> 0]
    ELSE [role |-> msg.role, content |-> msg.content, alias |-> i]

\* lines 106-113
CopyHistory(msgs) == [i \in 1..Len(msgs) |-> CopyEntry(msgs[i], i)]

\* last_message["content"] = c: the assignment reaches every holder of that dict
SetLastContent(prep, msgs, c) ==
    LET k == Len(prep)
        a == prep[k].alias
    IN  [prepared |-> [prep EXCEPT ![k].content = c],
         messages |-> IF a = 0 THEN msgs ELSE [msgs EXCEPT ![a].content = c]]

InjectAllowed_AnyRole(last) == TRUE
\* lines 122 and 142
InjectAllowed(last) == last.role = "user"

\* lines 121-134 and 141-150
Inject(prep, msgs, block) ==
    LET last == prep[Len(prep)]
    IN  IF InjectAllowed(last)
        THEN SetLastContent(prep, msgs, BlockList(<<TextBlock(last.content), block>>))
        ELSE [prepared |-> prep, messages |-> msgs]

Truthy_Always(data) == TRUE
\* line 120: if image_data
Truthy(data) == data # NoneData

\* the list handed to the caller, as values
Payload(prep) == [i \in 1..Len(prep) |-> Message(prep[i].role, prep[i].content)]

\* line 115 false: no file, or an empty list
PrepareNoAttachment ==
    /\ pc = "prepare"
    /\ uploaded_file = NoFile \/ CopyHistory(messages) = <<>>
    /\ prepared' = CopyHistory(messages)
    /\ pc' = "prepared"
    /\ UNCHANGED <<api_key, uploaded_file, messages, event, notices, before,
                   img_format, image, quality, max_size_bytes, image_data, request, carried>>

\* lines 118-119 and 59-68: the call of convert_image_to_base64, Image.open succeeds
PrepareOpenImage ==
    /\ pc = "prepare"
    /\ uploaded_file # NoFile /\ CopyHistory(messages) # <<>>
    /\ IsImageMime(uploaded_file.type)
    /\ uploaded_file.readable
    /\ prepared' = CopyHistory(messages)
    /\ max_size_bytes' = MaxSizeBytes(DefaultMaxSizeMb)
    /\ img_format' = uploaded_file.format
    /\ image' = [width |-> uploaded_file.width, height |-> uploaded_file.height]
    /\ quality' = InitialQuality
    /\ pc' = "convert"
    /\ UNCHANGED <<api_key, uploaded_file, messages, event, notices, before,
                   image_data, request, carried>>

\* lines 118-119, 62 and 99-101: Image.open raises
PrepareOpenImageFails ==
    /\ pc = "prepare"
    /\ uploaded_file # NoFile /\ CopyHistory(messages) # <<>>
    /\ IsImageMime(uploaded_file.type)
    /\ ~uploaded_file.readable
    /\ prepared' = CopyHistory(messages)
    /\ image_data' = NoneData
    /\ notices' = notices \cup {"err_image"}
    /\ pc' = "converted"
    /\ UNCHANGED <<api_key, uploaded_file, messages, event, before,
                   img_format, image, quality, max_size_bytes, request, carried>>

\* lines 136-150: the spreadsheet parses
PrepareSpreadsheet ==
    /\ pc = "prepare"
    /\ uploaded_file # NoFile /\ CopyHistory(messages) # <<>>
    /\ ~IsImageMime(uploaded_file.type)
    /\ uploaded_file.type \in ExcelMimes
    /\ uploaded_file.readable
    /\ LET r == Inject(CopyHistory(messages), messages, TextBlock(FencedTable))
       IN  prepared' = r.prepared /\ messages' = r.messages
    /\ pc' = "prepared"
    /\ UNCHANGED <<api_key, uploaded_file, event, notices, before,
                   img_format, image, quality, max_size_bytes, image_data, request, carried>>

\* lines 138-139 and 151-152: pd.read_excel raises
PrepareSpreadsheetFails ==
    /\ pc = "prepare"
    /\ uploaded_file # NoFile /\ CopyHistory(messages) # <<>>
    /\ ~IsImageMime(uploaded_file.type)
    /\ uploaded_file.type \in ExcelMimes
    /\ ~uploaded_file.readable
    /\ prepared' = CopyHistory(messages)
    /\ notices' = notices \cup {"err_excel"}
    /\ pc' = "prepared"
    /\ UNCHANGED <<api_key, uploaded_file, messages, event, before,
                   img_format, image, quality, max_size_bytes, image_data, request, carried>>

\* lines 120-134 and 154, after convert_image_to_base64 returned
PrepareFinish ==
    /\ pc = "converted"
    /\ LET r == IF Truthy(image_data)
                THEN Inject(prepared, messages, ImageBlock(uploaded_file.type, image_data))
                ELSE [prepared |-> prepared, messages |-> messages]
       IN  prepared' = r.prepared /\ messages' = r.messages
    /\ pc' = "prepared"
    /\ UNCHANGED <<api_key, uploaded_file, event, notices, before,
                   img_format, image, quality, max_size_bytes, image_data, request, carried>>

PrepareStep ==
    \/ PrepareNoAttachment
    \/ PrepareOpenImage
    \/ PrepareOpenImageFails
    \/ PrepareSpreadsheet
    \/ PrepareSpreadsheetFails
    \/ PrepareFinish

\* prepare_messages on its own: every history of plain-text messages up to
\* MaxHistory entries, whatever its roles, and every attachment
PlainMessages ==
    {Message("user", Str(p)) : p \in Prompts} \cup {Message("assistant", Str(r)) : r \in Replies}
Histories == UNION {[1..n -> PlainMessages] : n \in 0..MaxHistory}

InitAssembler ==
    /\ api_key = "sk"
    /\ uploaded_file \in Files \cup {NoFile}
    /\ messages \in Histories
    /\ before = messages
    /\ event = "none"
    /\ notices = {}
    /\ pc = "prepare"
    /\ prepared = <<>>
    /\ img_format = "none"
    /\ image = NoImage
    /\ quality = InitialQuality
    /\ max_size_bytes = 0
    /\ image_data = NoneData
    /\ request = <<>>
    /\ carried = FALSE

NextAssembler == PrepareStep \/ ConvertStep

SpecAssembler == InitAssembler /\ [][NextAssembler]_vars

----------------------------------------------------------------------------
(* stream_response (lines 40-54) *)

\* what client.messages.create does: a reply whose first block holds a text
\* (possibly the empty text), a reply without content, or an exception
Outcomes ==
    {[kind |-> "text", text |-> t] : t \in Replies \cup {""}}
    \cup {[kind |-> "empty", text |-> ""], [kind |-> "error", text |-> ""]}

StreamResult_ErrorAsText(outcome) ==
    IF outcome.kind = "text" THEN [isNone |-> FALSE, text |-> outcome.text]
    ELSE IF outcome.kind = "error" THEN [isNone |-> FALSE, text |-> "error"]
    ELSE NoneReply
\* lines 49-54: the value stream_response returns
StreamResult(outcome) ==
    IF outcome.kind = "text" THEN [isNone |-> FALSE, text |-> outcome.text]
    ELSE NoneReply

\* line 53
StreamNotices(outcome) == IF outcome.kind = "error" THEN {"err_endpoint"} ELSE {}

\* line 205: if message
ReplyTruthy(m) == ~m.isNone /\ m.text # ""

----------------------------------------------------------------------------
(* main (lines 157-210): one script run per user interaction *)

CredentialPresent_Unchecked(key) == TRUE
\* lines 181 and 31: if api_key
CredentialPresent(key) == key # ""

\* lines 181-185 and 28-37: the notices of a run that stops at the credential
\* check or at the client's construction; clientOk is whether
\* anthropic.Anthropic(...) returned
Halts(key, clientOk) == ~CredentialPresent(key) \/ ~clientOk
HaltNotices(key, clientOk) ==
    IF ~CredentialPresent(key) THEN {"no_key"}
    ELSE IF ~clientOk THEN {"err_client"} ELSE {}

AppendUser_Skipped(msgs, prompt) == msgs
\* line 195
AppendUser(msgs, prompt) == Append(msgs, Message("user", Str(prompt)))

\* line 207
AppendAssistant(msgs, m) == Append(msgs, Message("assistant", Str(m.text)))

\* whether a request message carries a file: a block list in its content
HasAttachment(req) == \E i \in 1..Len(req) : req[i].content.kind = "list"

\* a run without a prompt ends after the history is drawn (or at the stop)
RunWithoutPrompt(key) ==
    /\ \E clientOk \in BOOLEAN : notices' = HaltNotices(key, clientOk)
    /\ pc' = "idle"
    /\ request' = <<>>
    /\ UNCHANGED <<before, prepared, img_format, image, quality, max_size_bytes, image_data>>

\* line 164: the operator edits the key field
SetApiKey ==
    /\ pc = "idle"
    /\ \E k \in Keys : k # api_key /\ api_key' = k /\ RunWithoutPrompt(k)
    /\ event' = "key"
    /\ UNCHANGED <<uploaded_file, messages, carried>>

\* lines 168-172: the user puts a file in the uploader; it stays there
Upload ==
    /\ pc = "idle"
    /\ \E f \in Files : f # uploaded_file /\ uploaded_file' = f
    /\ RunWithoutPrompt(api_key)
    /\ event' = "upload"
    /\ carried' = FALSE
    /\ UNCHANGED <<api_key, messages>>

\* lines 168-172: the user removes the file from the uploader
RemoveFile ==
    /\ pc = "idle"
    /\ uploaded_file # NoFile
    /\ uploaded_file' = NoFile
    /\ RunWithoutPrompt(api_key)
    /\ event' = "remove"
    /\ UNCHANGED <<api_key, messages, carried>>

\* lines 176-178, and the run st.rerun() starts
Clear ==
    /\ pc = "idle"
    /\ messages' = <<>>
    /\ RunWithoutPrompt(api_key)
    /\ event' = "clear"
    /\ UNCHANGED <<api_key, uploaded_file, carried>>

\* a prompt arrives and the run stops at line 185 (or 33, 37)
SubmitPromptHalted ==
    /\ pc = "idle"
    /\ Len(messages) < MaxHistory
    /\ \E p \in Prompts, clientOk \in BOOLEAN :
         /\ Halts(api_key, clientOk)
         /\ notices' = HaltNotices(api_key, clientOk)
    /\ event' = "prompt"
    /\ pc' = "idle"
    /\ request' = <<>>
    /\ UNCHANGED <<api_key, uploaded_file, messages, before, prepared, img_format, image,
                   quality, max_size_bytes, image_data, carried>>

\* lines 193-202: a prompt arrives, is appended, prepare_messages is called
SubmitPrompt ==
    /\ pc = "idle"
    /\ Len(messages) < MaxHistory
    /\ ~Halts(api_key, TRUE)
    /\ \E p \in Prompts :
         /\ messages' = AppendUser(messages, p)
         /\ before' = AppendUser(messages, p)
    /\ notices' = {}
    /\ event' = "prompt"
    /\ pc' = "prepare"
    /\ request' = <<>>
    /\ UNCHANGED <<api_key, uploaded_file, prepared, img_format, image,
                   quality, max_size_bytes, image_data, carried>>

\* lines 203-207: stream_response is called with the prepared list, the reply
\* is appended when it is truthy, and the run ends
StreamResponse ==
    /\ pc = "prepared"
    /\ request' = Payload(prepared)
    /\ carried' = HasAttachment(Payload(prepared))
    /\ \E outcome \in Outcomes :
         /\ notices' = notices \cup StreamNotices(outcome)
         /\ messages' = IF ReplyTruthy(StreamResult(outcome))
                        THEN AppendAssistant(messages, StreamResult(outcome))
                        ELSE messages
    /\ pc' = "idle"
    /\ before' = <<>>
    /\ prepared' = <<>>
    /\ img_format' = "none"
    /\ image' = NoImage
    /\ quality' = InitialQuality
    /\ max_size_bytes' = 0
    /\ image_data' = NoneData
    /\ UNCHANGED <<api_key, uploaded_file, event>>

Init ==
    /\ api_key = ""
    /\ uploaded_file = NoFile
    /\ messages = <<>>
    /\ event = "none"
    /\ notices = {"no_key"}
    /\ pc = "idle"
    /\ before = <<>>
    /\ prepared = <<>>
    /\ img_format = "none"
    /\ image = NoImage
    /\ quality = InitialQuality
    /\ max_size_bytes = 0
    /\ image_data = NoneData
    /\ request = <<>>
    /\ carried = FALSE

Next ==
    \/ SetApiKey
    \/ Upload
    \/ RemoveFile
    \/ Clear
    \/ SubmitPromptHalted
    \/ SubmitPrompt
    \/ PrepareStep
    \/ ConvertStep
    \/ StreamResponse

Spec == Init /\ [][Next]_vars

----------------------------------------------------------------------------
(* Properties *)

InTurn == pc \in {"prepare", "convert", "converted", "prepared"}
EncodingFailed == notices \cap {"warn_compress", "err_image", "err_excel"} # {}
LastOf(seq) == seq[Len(seq)]

\* C1: prepare_messages leaves the stored history as it was when it was called
\* (roles and contents, whatever the roles and the attachment), and every
\* stored content stays a plain string.
C1_HistoryNotMutated ==
    /\ messages = before
    /\ \A i \in 1..Len(messages) : messages[i].content.kind = "str"

\* C1 witness: the call returned a list that holds the history's own dict of
\* an assistant message and a block list in its last entry.
C1_Witness ==
    /\ pc = "prepared"
    /\ \E i \in 1..Len(prepared) : prepared[i].alias = i
    /\ LastOf(prepared).content.kind = "list"
    /\ LastOf(prepared).content.blocks[2].type = "image"

\* C2: the compression loop ends, with data or with a reported failure; the
\* quality takes at most 7 steps of 10 from 90 down to 20, only for a JPEG
\* source and only before the image was ever resized, and every resize makes
\* both dimensions strictly smaller and keeps them at 200 px or more.
C2_LoopTerminates ==
    /\ <>(pc = "converted")
    /\ [](quality >= min_quality /\ InitialQuality - quality <= 7 * QualityStep)
    /\ [](pc = "converted" => image_data # NoneData \/ EncodingFailed)
    /\ [][pc' = "convert" =>
            \/ /\ quality' = quality - QualityStep
               /\ img_format \in JpegFormats
               /\ image' = image
               /\ image.width = uploaded_file.width /\ image.height = uploaded_file.height
            \/ /\ quality' = quality
               /\ img_format \in JpegFormats => quality = min_quality
               /\ image'.width < image.width /\ image'.height < image.height
               /\ image'.width >= min_dimension /\ image'.height >= min_dimension]_vars

\* C2 witness: a JPEG source went through all 7 quality steps and was then
\* resized twice before the loop gave up.
C2_Witness ==
    /\ pc = "converted"
    /\ img_format = "JPEG"
    /\ quality = min_quality
    /\ Shrink(Shrink(uploaded_file.width)) = image.width
    /\ image.width < uploaded_file.width
    /\ "warn_compress" \in notices

\* C3: when the endpoint request fails, the step that ends the turn leaves the
\* history exactly as it was when the request was sent, with the user's
\* message last; the error is shown and the session is back at its prompt
\* with its credential.
C3_FailedRequestAppendsNothing ==
    [][(pc = "prepared" /\ "err_endpoint" \in notices') =>
          /\ messages' = messages
          /\ LastOf(messages').role = "user"
          /\ Len(request') = Len(messages')
          /\ pc' = "idle"
          /\ api_key' = api_key /\ CredentialPresent(api_key')]_vars

\* C3 witness: a turn after earlier turns ended with the endpoint's error.
C3_Witness ==
    /\ pc = "idle"
    /\ "err_endpoint" \in notices
    /\ Len(messages) >= 3
    /\ LastOf(messages).role = "user"
    /\ request # <<>>

\* C4: a run of main with an empty API key ends at the credential check: no
\* user message is appended (the history is kept, or emptied by Clear), no
\* call of prepare_messages or stream_response follows, no request exists.
C4_NoRequestWithoutCredential ==
    [][api_key' = "" =>
          /\ pc' = "idle"
          /\ request' = <<>>
          /\ messages' = messages \/ messages' = <<>>]_vars

\* C4 witness: a prompt was submitted with an empty key over a history that
\* earlier turns had filled.
C4_Witness ==
    /\ api_key = ""
    /\ event = "prompt"
    /\ "no_key" \in notices
    /\ Len(messages) >= 2
    /\ pc = "idle"

\* C5: the list prepare_messages returns has the length and the roles of the
\* history it was given and the same content everywhere but possibly at the
\* last position; the last content differs only with an attachment whose
\* encoding succeeded and a last role of user; without attachment the list
\* equals the history.
C5_OnlyLastContentChanges ==
    pc = "prepared" =>
        /\ Len(prepared) = Len(before)
        /\ \A i \in 1..Len(before) : prepared[i].role = before[i].role
        /\ \A i \in 1..(Len(before) - 1) : prepared[i].content = before[i].content
        /\ (before # <<>> /\ LastOf(prepared).content # LastOf(before).content) =>
              /\ uploaded_file # NoFile
              /\ \/ IsImageMime(uploaded_file.type) /\ image_data # NoneData
                 \/ uploaded_file.type \in ExcelMimes /\ uploaded_file.readable
              /\ LastOf(before).role = "user"
        /\ uploaded_file = NoFile => Payload(prepared) = before

\* C5 witness: a history of several messages came back with only its last
\* content changed, into the text and the encoded attachment.
C5_Witness ==
    /\ pc = "prepared"
    /\ Len(before) >= 2
    /\ LastOf(prepared).content = BlockList(<<TextBlock(LastOf(before).content),
                                             ImageBlock(uploaded_file.type, image_data)>>)
    /\ image_data # NoneData

\* C6: after a failed encoding (image not compressible, image processing
\* raising, spreadsheet not parsable) prepare_messages returns the whole
\* history with plain contents, and the turn ends with that list sent to the
\* endpoint.
C6_FailedEncodingStillSends ==
    /\ (pc = "prepared" /\ EncodingFailed) => Payload(prepared) = before
    /\ (pc = "idle" /\ EncodingFailed) =>
          /\ request # <<>>
          /\ request = SubSeq(messages, 1, Len(request))
          /\ Len(messages) - Len(request) <= 1
          /\ LastOf(request).role = "user"

\* C6 witness: a turn whose image could not be compressed ended with a
\* request sent and answered.
C6_Witness ==
    /\ pc = "idle"
    /\ "warn_compress" \in notices
    /\ request # <<>>
    /\ LastOf(messages).role = "assistant"

\* C7: a returned base64 string is never longer than max_size_mb * 1024 * 1024.
C7_EncodedWithinBudget ==
    image_data # NoneData => image_data.length <= max_size_bytes

\* C7 witness: with the default budget the returned string is exactly as long
\* as the budget.
C7_Witness ==
    /\ pc = "converted"
    /\ max_size_bytes = MaxSizeBytes(DefaultMaxSizeMb)
    /\ image_data # NoneData
    /\ image_data.length = max_size_bytes

\* the codec each accepted media type names
FormatOfMime(mime) ==
    CASE mime = "image/jpeg" -> "JPEG"
      [] mime = "image/png" -> "PNG"
      [] mime = "image/webp" -> "WEBP"
      [] OTHER -> "none"

\* C8 (as claimed): the media_type of every image block in the prepared list
\* names the codec of the data the block carries.
C8_MediaTypeMatchesData ==
    pc = "prepared" =>
        \A i \in 1..Len(prepared) :
            prepared[i].content.kind = "list" =>
                \A j \in 1..Len(prepared[i].content.blocks) :
                    LET b == prepared[i].content.blocks[j]
                    IN  b.type = "image" => FormatOfMime(b.media_type) = b.data.format

\* C9 (as claimed): when the last request carried a file and nothing has been
\* uploaded since, the list prepared for the next request holds no block list.
C9_AttachmentNotRetained ==
    (pc = "prepared" /\ carried) => ~HasAttachment(Payload(prepared))

\* C10: whenever prepare_messages runs for main the history is non-empty and
\* ends with a user message, so an encoded attachment is always injected; the
\* history never starts with an assistant message nor holds two in a row.
C10_HistoryShape ==
    /\ InTurn => messages # <<>> /\ LastOf(messages).role = "user"
    /\ (pc = "prepared" /\ image_data # NoneData) =>
          LastOf(prepared).content.kind = "list"
    /\ messages # <<>> => messages[1].role = "user"
    /\ \A i \in 1..(Len(messages) - 1) :
          ~(messages[i].role = "assistant" /\ messages[i + 1].role = "assistant")

\* C10 witness: after a turn without reply the next turn's prompt follows the
\* earlier user message directly, and its attachment is injected.
C10_Witness ==
    /\ pc = "prepared"
    /\ Len(messages) >= 2
    /\ messages[Len(messages) - 1].role = "user"
    /\ LastOf(prepared).content.kind = "list"
    /\ image_data # NoneData

====
